---- MODULE Spec2Model ----
(***************************************************************************)
(* Model of the multimodal RAG backend: the ChromaDB-backed VectorStore    *)
(* (src/backend/app/services/vector_store.py), the two-stage QueryService  *)
(* (src/backend/app/services/query_service.py) and the /query route with   *)
(* its in-memory conversations_db (src/backend/app/api/routes.py).         *)
(*                                                                         *)
(* A chunk stored in the collection is a record                            *)
(*   [chunk_id, document_id, chunk_type]                                   *)
(* and the collection is the set of these records, so that two stored      *)
(* chunks with one id are representable and their absence is a property.   *)
(* Calls into ChromaDB, the embedding models and the language model can    *)
(* raise; every operation takes the place where a fault occurs as an       *)
(* input ("none" when every external call succeeds).                       *)
(***************************************************************************)
EXTENDS Integers, Sequences, FiniteSets, TLC

\* ---------------------------------------------------------------- bounds
MaxChunks == 2
MaxTopK == 2
MaxQueryTokens == 2
MaxReplyTokens == 1
MaxThreads == 3
\* the value settings.token_limit has when the deployment supplies one
ConfiguredLimit == 1
\* characters of a text handed to _chunk_text, and the window sizes tried on it
MaxTextLen == 3
MaxChunkSize == 2
\* passes through the body of the while loop of _chunk_text that are followed
MaxIterations == 5
\* pages of a PDF and embedded images on a page
MaxPages == 2
MaxImages == 1

\* two content hashes (generate_document_id): one document and another one
DocumentIds == {"d1", "d2"}
ChunkTypes == {"text", "image"}
TopKs == 1..MaxTopK

RECURSIVE SeqsUpTo(_, _)
SeqsUpTo(S, n) ==
    IF n = 0 THEN {<<>>}
    ELSE LET shorter == SeqsUpTo(S, n - 1)
         IN  shorter \cup {Append(s, x) : s \in {t \in shorter : Len(t) = n - 1}, x \in S}

\* the chunk lists the document processor hands to add_documents
ChunkLists == SeqsUpTo(ChunkTypes, MaxChunks)

\* ------------------------------------------------------- metadata filters
\* A where-condition on one metadata key: a plain value means equality,
\* {"$ne": v} means inequality.
Cond(op, val) == [op |-> op, val |-> val]
FilterKeys == {"document_id", "chunk_type"}
\* filter_dict: Optional[Dict]; is_none marks None, conds maps keys to conditions
NoFilter == [is_none |-> TRUE, conds |-> <<>>]
FilterOf(conds) == [is_none |-> FALSE, conds |-> conds]
Filters ==
    {NoFilter, FilterOf(<<>>)}
    \cup {FilterOf([k \in {"chunk_type"} |-> Cond("$eq", t)]) : t \in ChunkTypes}
    \cup {FilterOf([k \in {"document_id"} |-> Cond("$eq", d)]) : d \in DocumentIds}
    \cup {FilterOf([k \in FilterKeys |->
                       IF k = "chunk_type" THEN Cond("$eq", t) ELSE Cond("$eq", d)])
          : t \in ChunkTypes, d \in DocumentIds}

\* ---------------------------------------------------------------- state
VARIABLES
    index,              \* records held by the ChromaDB collection
    collection_live,    \* FALSE once delete_collection ran and create_collection did not
    conversations_db,   \* routes.py: thread id -> thread
    token_limit,        \* settings.token_limit as read by the /query route
    settings,           \* settings.chunk_size and settings.chunk_overlap
    chunker,            \* the locals of the _chunk_text call in progress
    upload,             \* the file the upload route saved: its name and what it holds
    pipeline,           \* the locals of the QueryService.query call in progress
    running,            \* the route handler that holds the event loop
    last                \* the last call: operation, arguments, fault and result

vars == <<index, collection_live, conversations_db, token_limit, settings, chunker,
          upload, pipeline, running, last>>

\* Settings (config.py) declares no token_limit field, so reading
\* settings.token_limit raises AttributeError: is_set is FALSE for Settings as
\* written; is_set TRUE stands for a deployment whose settings object carries
\* the attribute the /query route reads.
NotConfigured == [is_set |-> FALSE, value |-> 0]
Configured(n) == [is_set |-> TRUE, value |-> n]

\* running: the route handler that has started and not returned, with the ids
\* its collection.get returned, and the document ids of the uploads that
\* reached the server since it started
Handler(op, document_id, ids) ==
    [op |-> op, document_id |-> document_id, ids |-> ids, waiting |-> {}]

\* no handler is between its first line and its return
Idle == Handler("idle", "", {})

\* ------------------------------------------------------------------ texts
\* A text is a sequence of one-letter words and blanks; the first word of a
\* fixed answer string keeps it apart from any other text.
RECURSIVE WordsFrom(_, _)
WordsFrom(first, n) ==
    IF n = 0 THEN <<>>
    ELSE IF n = 1 THEN <<first>>
    ELSE WordsFrom(first, n - 1) \o <<" ", "w">>

Words(n) == WordsFrom("w", n)

\* count_tokens: 0 for the empty text, else len(text.split())
count_tokens(text) ==
    Cardinality({i \in 1..Len(text) : text[i] # " " /\ (i = 1 \/ text[i - 1] = " ")})

\* not text.strip()
IsBlank(text) == \A i \in 1..Len(text) : text[i] = " "

QueryTexts == {Words(n) : n \in 0..MaxQueryTokens} \cup {<<" ">>}
\* response.content of the language model: a reply of MaxReplyTokens words
LlmReplies == {Words(MaxReplyTokens)}

ApologyWords == 16
GenerationErrorWords == 3
PipelineErrorWords == 7
\* "I couldn't find any relevant information in the knowledge base to answer ..."
Apology == WordsFrom("I", ApologyWords)
\* f"Error generating response: {str(e)}" with an empty exception text
GenerationError == WordsFrom("Error", GenerationErrorWords)
\* f"An error occurred while processing your query: {str(e)}"
PipelineError == WordsFrom("An", PipelineErrorWords)
\* context when nothing was retrieved, and the stand-in for the joined blocks
NoRelevantDocuments == "No relevant documents found."
ContextBlocks == "blocks"

ThreadIds == 1..MaxThreads
\* thread_id None
NoThread == 0

\* what a file holds: the characters of a text file, the pages of a PDF
NoBytes == [content |-> <<>>, pages |-> <<>>]

\* a hex digest: the bytes it was computed from and its number of hex characters
HexDigest(bytes, hex_chars) == [of |-> bytes, hex_chars |-> hex_chars]
NoDocumentId == HexDigest(NoBytes, 0)

\* file_path = save_dir / file.filename, and the file written there
Upload(file_name, file) == [file_name |-> file_name, file |-> file]
NoUpload == Upload("", [kind |-> "text", content |-> <<>>, pages |-> <<>>])

\* an embedding: its number of components, how many of them are zeros put
\* there by the service, and the encoder it came from
Vector(length, zeros, source) == [length |-> length, zeros |-> zeros, source |-> source]
NoVector == Vector(0, 0, "")

\* last: op names the call; raised tells whether it raised to its caller; count,
\* ok and total_chunks are the int, bool and stats results; retrieved is the list
\* VectorStore.query returned; after_same tells that the call before this one was
\* the same operation on the same argument and returned True; scores is the list
\* of relevance scores in the order VectorStore.query returned them; file_type,
\* has_text and has_images are the DocumentMetadata process_document returned
\* and chunks then lists the chunk types it emitted, chunk_ids the chunk_id in
\* the metadata of each of them, file the upload the call read; sent_thread_id is the
\* thread id in the body of a /query request, named_existing tells that this id
\* was a key of conversations_db when the handler started, cancelled that the
\* client gave up the request while QueryService.query was running, overlapped
\* that an upload of the same document id reached the server while this call
\* was between its two collection calls
NoCall ==
    [op |-> "init", document_id |-> "", chunks |-> <<>>, fault |-> "none",
     raised |-> FALSE, count |-> 0, ok |-> FALSE, after_same |-> FALSE,
     filter |-> NoFilter, include_images |-> TRUE, retrieved |-> {}, total_chunks |-> 0,
     query |-> <<>>, answer |-> <<>>, context |-> "", total_results |-> 0,
     llm_fault |-> FALSE, llm_calls |-> 0, retrievals |-> 0, messages |-> <<>>,
     status |-> 0, thread_id |-> NoThread,
     scores |-> <<>>, file_type |-> "", has_text |-> FALSE, has_images |-> FALSE,
     sent_thread_id |-> NoThread, named_existing |-> FALSE, cancelled |-> FALSE,
     overlapped |-> FALSE, chunk_ids |-> <<>>, history |-> <<>>,
     conversation_tokens |-> 0, file |-> NoUpload, generated_id |-> NoDocumentId,
     vector |-> NoVector]

\* ----------------------------------------------------------- VectorStore
\* chunk_id = f"{document_id}_{i}"
ChunkId(document_id, i) == <<document_id, i>>

\* the ids/metadatas lists add_documents builds from enumerate(chunks)
Batch(chunks, document_id) ==
    {[chunk_id |-> ChunkId(document_id, i - 1),
      document_id |-> document_id,
      chunk_type |-> chunks[i]] : i \in 1..Len(chunks)}

\* plausible bug: the insert keeps a record although its id is already stored
CollectionAddKeepsDuplicates(ix, batch) == ix \cup batch

\* self.collection.add(ids=..., ...): one batch; a record whose id is already
\* in the collection is not inserted again
CollectionAdd(ix, batch) ==
    ix \cup {c \in batch : \A e \in ix : e.chunk_id # c.chunk_id}

\* embed_text raises when the fallback encoder raises too; embed_image never does
AddFaults(chunks) ==
    {"none", "insert"} \cup (IF \E i \in 1..Len(chunks) : chunks[i] = "text" THEN {"embed"} ELSE {})

\* plausible bug: a failing insert leaves the first record of the batch behind
add_documents_partial(chunks, document_id, fault) ==
    LET call == [NoCall EXCEPT !.op = "add_documents", !.document_id = document_id,
                               !.chunks = chunks, !.fault = fault]
    IN  /\ IF chunks = <<>>
           THEN index' = index /\ last' = [call EXCEPT !.count = 0]
           ELSE IF fault # "none" \/ ~collection_live
           THEN /\ index' = IF fault = "insert"
                            THEN CollectionAdd(index, Batch(SubSeq(chunks, 1, 1), document_id))
                            ELSE index
                /\ last' = [call EXCEPT !.raised = TRUE]
           ELSE /\ index' = CollectionAdd(index, Batch(chunks, document_id))
                /\ last' = [call EXCEPT !.count = Len(chunks)]
        /\ UNCHANGED <<collection_live, conversations_db, token_limit, settings, upload, pipeline, chunker, running>>

add_documents(chunks, document_id, fault) ==
    LET call == [NoCall EXCEPT !.op = "add_documents", !.document_id = document_id,
                               !.chunks = chunks, !.fault = fault]
    IN  /\ IF chunks = <<>>
           THEN index' = index /\ last' = [call EXCEPT !.count = 0]
           ELSE IF fault # "none" \/ ~collection_live
           THEN index' = index /\ last' = [call EXCEPT !.raised = TRUE]
           ELSE /\ index' = CollectionAdd(index, Batch(chunks, document_id))
                /\ last' = [call EXCEPT !.count = Len(chunks)]
        /\ UNCHANGED <<collection_live, conversations_db, token_limit, settings, upload, pipeline, chunker, running>>

\* where_clause as VectorStore.query builds it from filter_dict and include_images;
\* the empty function stands for "no where argument is passed"
ImageExclusion == Cond("$ne", "image")

\* plausible bug: the image exclusion is added only when the caller gave no filter
WhereClauseKeepsCallerFilter(filter_dict, include_images) ==
    LET where_clause == IF filter_dict.is_none \/ DOMAIN filter_dict.conds = {}
                        THEN <<>>
                        ELSE filter_dict.conds
    IN  IF include_images \/ DOMAIN where_clause # {}
        THEN where_clause
        ELSE [k \in {"chunk_type"} |-> ImageExclusion]

WhereClause(filter_dict, include_images) ==
    LET where_clause == IF filter_dict.is_none \/ DOMAIN filter_dict.conds = {}
                        THEN <<>>
                        ELSE filter_dict.conds
    IN  IF include_images
        THEN where_clause
        ELSE [k \in DOMAIN where_clause \cup {"chunk_type"} |->
                 IF k = "chunk_type" THEN ImageExclusion ELSE where_clause[k]]

\* ChromaDB's evaluation of one condition against a record's metadata
CondHolds(cond, value) ==
    IF cond.op = "$ne" THEN value # cond.val ELSE value = cond.val

WhereMatches(where, chunk) ==
    \A k \in DOMAIN where : CondHolds(where[k], chunk[k])

Min(a, b) == IF a < b THEN a ELSE b

\* the result lists collection.query can return: n_results nearest records among
\* those the where clause admits (which ones is decided by the embeddings)
QueryResults(ix, where, top_k) ==
    LET matching == {c \in ix : WhereMatches(where, c)}
    IN  {r \in SUBSET matching : Cardinality(r) = Min(top_k, Cardinality(matching))}

QueryFaults == {"none", "embed", "search"}

\* the values VectorStore.query can return (raised when embed_query raises, which
\* happens before the try block); a where clause with several keys is rejected
\* by the ChromaDB versions that require one top-level operator (the except
\* branch then returns []) and read as a conjunction by the others
StoreQueryReturns(top_k, filter_dict, include_images, fault) ==
    LET where == WhereClause(filter_dict, include_images)
    IN  IF fault = "embed" THEN {[raised |-> TRUE, docs |-> {}]}
        ELSE IF fault = "search" \/ ~collection_live THEN {[raised |-> FALSE, docs |-> {}]}
        ELSE {[raised |-> FALSE, docs |-> r] : r \in QueryResults(index, where, top_k)}
             \cup (IF Cardinality(DOMAIN where) > 1
                   THEN {[raised |-> FALSE, docs |-> {}]} ELSE {})

\* the distances ChromaDB can report for a neighbour
Distances == {0, 1}

\* results["distances"][0] for n results: collection.query lists the
\* neighbours nearest first
DistanceLists(n) ==
    {d \in [1..n -> Distances] : \A i \in 1..(n - 1) : d[i] <= d[i + 1]}

\* plausible bug: the distance is reported as the score
RelevanceScoreIsDistance(distance) == distance

\* "relevance_score": 1.0 - float(results["distances"][0][i])
RelevanceScore(distance) == 1 - distance

\* the relevance_score of retrieved_docs[i], in the order of the results
Scores(distances) == [i \in 1..Len(distances) |-> RelevanceScore(distances[i])]

store_query(top_k, filter_dict, include_images, fault) ==
    /\ \E r \in StoreQueryReturns(top_k, filter_dict, include_images, fault) :
          \E distances \in DistanceLists(Cardinality(r.docs)) :
              last' = [NoCall EXCEPT !.op = "query", !.filter = filter_dict,
                                     !.include_images = include_images, !.fault = fault,
                                     !.raised = r.raised, !.retrieved = r.docs,
                                     !.scores = Scores(distances)]
    /\ UNCHANGED <<index, collection_live, conversations_db, token_limit, settings, upload, pipeline, chunker, running>>

\* plausible bug: only the first chunk of the document is looked up
ChunkIdsOfFirstOnly(ix, document_id) ==
    {c.chunk_id : c \in {e \in ix : e.document_id = document_id /\ e.chunk_id[2] = 0}}

\* results["ids"] of collection.get(where={"document_id": document_id})
ChunkIdsOf(ix, document_id) == {c.chunk_id : c \in {e \in ix : e.document_id = document_id}}

DeleteFaults(document_id) ==
    {"none", "get"} \cup (IF ChunkIdsOf(index, document_id) # {} THEN {"delete"} ELSE {})

\* plausible bug: not-found is reported as success
delete_document_always_true(document_id, fault) ==
    LET ids == ChunkIdsOf(index, document_id)
        call == [NoCall EXCEPT !.op = "delete_document", !.document_id = document_id,
                               !.fault = fault,
                               !.after_same = (last.op = "delete_document"
                                               /\ last.document_id = document_id /\ last.ok)]
    IN  /\ IF fault = "get" \/ ~collection_live
           THEN index' = index /\ last' = [call EXCEPT !.ok = FALSE]
           ELSE IF ids # {}
           THEN IF fault = "delete"
                THEN index' = index /\ last' = [call EXCEPT !.ok = FALSE]
                ELSE /\ index' = {c \in index : c.chunk_id \notin ids}
                     /\ last' = [call EXCEPT !.ok = TRUE]
           ELSE index' = index /\ last' = [call EXCEPT !.ok = TRUE]
        /\ UNCHANGED <<collection_live, conversations_db, token_limit, settings, upload, pipeline, chunker, running>>

delete_document(document_id, fault) ==
    LET ids == ChunkIdsOf(index, document_id)
        call == [NoCall EXCEPT !.op = "delete_document", !.document_id = document_id,
                               !.fault = fault,
                               !.after_same = (last.op = "delete_document"
                                               /\ last.document_id = document_id /\ last.ok)]
    IN  /\ IF fault = "get" \/ ~collection_live
           THEN index' = index /\ last' = [call EXCEPT !.ok = FALSE]
           ELSE IF ids # {}
           THEN IF fault = "delete"
                THEN index' = index /\ last' = [call EXCEPT !.ok = FALSE]
                ELSE /\ index' = {c \in index : c.chunk_id \notin ids}
                     /\ last' = [call EXCEPT !.ok = TRUE]
           ELSE index' = index /\ last' = [call EXCEPT !.ok = FALSE]
        /\ UNCHANGED <<collection_live, conversations_db, token_limit, settings, upload, pipeline, chunker, running>>

StatsFaults == {"none", "count"}

\* stats["total_chunks"] as get_collection_stats returns it
TotalChunks(fault) ==
    IF fault = "count" \/ ~collection_live THEN 0 ELSE Cardinality(index)

get_collection_stats(fault) ==
    /\ last' = [NoCall EXCEPT !.op = "get_collection_stats", !.fault = fault,
                              !.total_chunks = TotalChunks(fault)]
    /\ UNCHANGED <<index, collection_live, conversations_db, token_limit, settings, upload, pipeline, chunker, running>>

ResetFaults == {"none", "delete_collection", "create_collection"}

\* plausible bug: the collection is not dropped, only re-fetched
reset_collection_keeps_records(fault) ==
    LET call == [NoCall EXCEPT !.op = "reset_collection", !.fault = fault,
                               !.after_same = (last.op = "reset_collection" /\ last.ok)]
    IN  /\ IF fault = "delete_collection" \/ ~collection_live
           THEN /\ UNCHANGED <<index, collection_live>>
                /\ last' = [call EXCEPT !.ok = FALSE]
           ELSE IF fault = "create_collection"
           THEN /\ index' = {}
                /\ collection_live' = FALSE
                /\ last' = [call EXCEPT !.ok = FALSE]
           ELSE /\ index' = index
                /\ collection_live' = TRUE
                /\ last' = [call EXCEPT !.ok = TRUE]
        /\ UNCHANGED <<conversations_db, token_limit, settings, upload, pipeline, chunker, running>>

\* delete_collection raises when the collection does not exist (any more)
reset_collection(fault) ==
    LET call == [NoCall EXCEPT !.op = "reset_collection", !.fault = fault,
                               !.after_same = (last.op = "reset_collection" /\ last.ok)]
    IN  /\ IF fault = "delete_collection" \/ ~collection_live
           THEN /\ UNCHANGED <<index, collection_live>>
                /\ last' = [call EXCEPT !.ok = FALSE]
           ELSE IF fault = "create_collection"
           THEN /\ index' = {}
                /\ collection_live' = FALSE
                /\ last' = [call EXCEPT !.ok = FALSE]
           ELSE /\ index' = {}
                /\ collection_live' = TRUE
                /\ last' = [call EXCEPT !.ok = TRUE]
        /\ UNCHANGED <<conversations_db, token_limit, settings, upload, pipeline, chunker, running>>

\* VectorStore.__init__ at process start: the persisted collection is loaded,
\* or created when get_collection raises; routes.py's conversations_db = {}
VectorStoreInit ==
    /\ index' = index
    /\ collection_live' = TRUE
    /\ conversations_db' = <<>>
    /\ last' = [NoCall EXCEPT !.op = "__init__"]
    /\ UNCHANGED <<token_limit, settings, upload, pipeline, chunker, running>>

\* ------------------------------------------- route handlers on the event loop
\* Every route of routes.py is a coroutine (async def) whose body has no await
\* (upload_batch awaits upload_document, which has none either), and the
\* application runs in one uvicorn process: the event loop starts a handler only
\* when no other handler is between its first line and its return.

\* plausible bug: the routes are plain functions, which run on worker threads
EventLoopFreeAlways == TRUE

EventLoopFree == running.op = "idle"

\* VectorStore.delete_document up to the return of collection.get
delete_document_get(document_id, fault) ==
    LET ids == ChunkIdsOf(index, document_id)
        call == [NoCall EXCEPT !.op = "delete_document", !.document_id = document_id,
                               !.fault = fault]
    IN  /\ EventLoopFree
        /\ IF fault = "get" \/ ~collection_live \/ ids = {}
           THEN last' = [call EXCEPT !.ok = FALSE] /\ UNCHANGED running
           ELSE running' = Handler("delete_document", document_id, ids) /\ UNCHANGED last
        /\ UNCHANGED <<index, collection_live, conversations_db, token_limit, settings, upload, pipeline, chunker>>

\* VectorStore.delete_document from collection.delete(ids=results["ids"]) on
delete_document_delete(fault) ==
    LET call == [NoCall EXCEPT !.op = "delete_document",
                               !.document_id = running.document_id, !.fault = fault,
                               !.overlapped = running.document_id \in running.waiting]
    IN  /\ running.op = "delete_document"
        /\ IF fault = "delete" \/ ~collection_live
           THEN index' = index /\ last' = [call EXCEPT !.ok = FALSE]
           ELSE /\ index' = {c \in index : c.chunk_id \notin running.ids}
                /\ last' = [call EXCEPT !.ok = TRUE]
        /\ running' = Idle
        /\ UNCHANGED <<collection_live, conversations_db, token_limit, settings, upload, pipeline, chunker>>

\* VectorStore.reset_collection up to the return of client.delete_collection
reset_collection_delete(fault) ==
    LET call == [NoCall EXCEPT !.op = "reset_collection", !.fault = fault]
    IN  /\ EventLoopFree
        /\ IF fault = "delete_collection" \/ ~collection_live
           THEN /\ last' = [call EXCEPT !.ok = FALSE]
                /\ UNCHANGED <<index, collection_live, running>>
           ELSE /\ index' = {}
                /\ collection_live' = FALSE
                /\ running' = Handler("reset_collection", "", {})
                /\ UNCHANGED last
        /\ UNCHANGED <<conversations_db, token_limit, settings, upload, pipeline, chunker>>

\* VectorStore.reset_collection from client.create_collection on
reset_collection_create(fault) ==
    LET call == [NoCall EXCEPT !.op = "reset_collection", !.fault = fault]
    IN  /\ running.op = "reset_collection"
        /\ IF fault = "create_collection"
           THEN last' = [call EXCEPT !.ok = FALSE] /\ UNCHANGED collection_live
           ELSE last' = [call EXCEPT !.ok = TRUE] /\ collection_live' = TRUE
        /\ running' = Idle
        /\ UNCHANGED <<index, conversations_db, token_limit, settings, upload, pipeline, chunker>>

\* POST /upload of a document reaches the server while a handler is running:
\* its own handler has not started
upload_arrives(document_id) ==
    /\ running.op # "idle"
    /\ document_id \notin running.waiting
    /\ running' = [running EXCEPT !.waiting = @ \cup {document_id}]
    /\ UNCHANGED <<index, collection_live, conversations_db, token_limit, settings, upload, pipeline,
                   chunker, last>>

\* ------------------------------------------------------ DocumentProcessor
\* A text is a sequence of characters; " " stands for any whitespace character
\* and "a" for any other one.
Chars == {"a", " "}
Texts == SeqsUpTo(Chars, MaxTextLen)

\* Settings.chunk_size and Settings.chunk_overlap as declared
DefaultChunkSize == 1000
DefaultChunkOverlap == 200
ChunkSettings(size, overlap) == [chunk_size |-> size, chunk_overlap |-> overlap]
DefaultSettings == ChunkSettings(DefaultChunkSize, DefaultChunkOverlap)

\* values the two settings can be given through the environment: overlaps
\* below the window size, equal to it and above it
SmallSettings ==
    {ChunkSettings(w, o) : w \in 1..MaxChunkSize, o \in 0..(MaxChunkSize + 1)}

\* the settings under which the step chunk_size - chunk_overlap is positive
AdvancingSettings == {c \in SmallSettings \cup {DefaultSettings} : c.chunk_overlap < c.chunk_size}

\* a text file of 2,500 characters none of which is whitespace
LongText == [i \in 1..2500 |-> "a"]

Max(a, b) == IF a > b THEN a ELSE b

\* Python's text[start:end]: a negative bound counts from the end, both are
\* clamped to the text
SliceBound(i, n) == IF i < 0 THEN Max(i + n, 0) ELSE Min(i, n)

Slice(text, start, end) ==
    LET lo == SliceBound(start, Len(text))
        hi == SliceBound(end, Len(text))
    IN  IF lo >= hi THEN <<>> ELSE SubSeq(text, lo + 1, hi)

\* plausible bug: every window is emitted, the blank ones included
EmitsChunkAlways(chunk_text) == TRUE

\* if chunk_text.strip():
EmitsChunk(chunk_text) == ~IsBlank(chunk_text)

\* plausible bug: the window advances by its whole size
NextStartWithoutOverlap(start, chunk_size, chunk_overlap) == start + chunk_size

\* start += chunk_size - chunk_overlap
NextStart(start, chunk_size, chunk_overlap) == start + chunk_size - chunk_overlap

\* the locals of _chunk_text: pc tells whether the call is in its while loop
\* or has returned; iterations counts the passes through the loop body; a chunk
\* keeps, next to its content and metadata chunk_id, the value start had when
\* the chunk was cut
ChunkerCall(text) ==
    [pc |-> "loop", text |-> text, start |-> 0, chunk_id |-> 0, chunks |-> <<>>,
     iterations |-> 0]

ChunkerIdle == [ChunkerCall(<<>>) EXCEPT !.pc = "idle"]

\* one pass through the body of the while loop
ChunkIteration(c, cfg) ==
    LET end == c.start + cfg.chunk_size
        chunk_text == Slice(c.text, c.start, end)
        emitted == EmitsChunk(chunk_text)
    IN  [c EXCEPT !.chunks = IF emitted
                             THEN Append(c.chunks, [content |-> chunk_text,
                                                    chunk_id |-> c.chunk_id,
                                                    start |-> c.start])
                             ELSE c.chunks,
                  !.chunk_id = IF emitted THEN c.chunk_id + 1 ELSE c.chunk_id,
                  !.start = NextStart(c.start, cfg.chunk_size, cfg.chunk_overlap),
                  !.iterations = c.iterations + 1]

\* while start < len(text): the loop body
ChunkTextIterate ==
    /\ chunker.pc = "loop"
    /\ chunker.start < Len(chunker.text)
    /\ chunker.iterations < MaxIterations
    /\ chunker' = ChunkIteration(chunker, settings)
    /\ UNCHANGED <<index, collection_live, conversations_db, token_limit, settings, upload, pipeline,
                   running, last>>

\* the loop condition fails: return chunks
ChunkTextReturn ==
    /\ chunker.pc = "loop"
    /\ chunker.start >= Len(chunker.text)
    /\ chunker' = [chunker EXCEPT !.pc = "done"]
    /\ UNCHANGED <<index, collection_live, conversations_db, token_limit, settings, upload, pipeline,
                   running, last>>

\* _chunk_text as a function, for the settings under which its loop ends
RECURSIVE ChunkLoop(_, _)
ChunkLoop(c, cfg) ==
    IF c.start < Len(c.text) THEN ChunkLoop(ChunkIteration(c, cfg), cfg) ELSE c.chunks

chunk_text(text, cfg) == ChunkLoop(ChunkerCall(text), cfg)

\* the files process_document is given: a text file with its content, an image
\* file, or a PDF with its pages; a page has its text and its embedded images,
\* each of which doc.extract_image / Image.open either yields or raises on
ExtractOutcomes == {"ok", "fails"}
ImageLists == SeqsUpTo(ExtractOutcomes, MaxImages)
PageTexts == {<<>>, <<" ">>, <<"a">>, <<"a", " ", "a">>}
\* a page without text is one whose text is whitespace only
Pages == [text : PageTexts \ {<<>>}, images : ImageLists]
TextFile(content) == [kind |-> "text", content |-> content, pages |-> <<>>]
ImageFile == [kind |-> "image", content |-> <<>>, pages |-> <<>>]
PdfFile(pages) == [kind |-> "pdf", content |-> <<>>, pages |-> pages]
Files ==
    {TextFile(t) : t \in PageTexts} \cup {ImageFile}
    \cup {PdfFile(pages) : pages \in SeqsUpTo(Pages, MaxPages)}

\* the chunk_type of each chunk _chunk_text returns
TextChunkTypes(text, cfg) == [k \in 1..Len(chunk_text(text, cfg)) |-> "text"]

\* the image chunks of a page: one per image whose extraction does not raise
ImageChunkTypes(images) ==
    [k \in 1..Len(SelectSeq(images, LAMBDA o : o = "ok")) |-> "image"]

\* the chunks one pass of the page loop of process_pdf_file appends
PageChunkTypes(page, cfg) ==
    (IF ~IsBlank(page.text) THEN TextChunkTypes(page.text, cfg) ELSE <<>>)
    \o ImageChunkTypes(page.images)

\* plausible bug: a failing image ends the page loop
RECURSIVE PdfChunkTypesUntilFailure(_, _)
PdfChunkTypesUntilFailure(pages, cfg) ==
    IF pages = <<>> THEN <<>>
    ELSE IF \E k \in 1..Len(pages[1].images) : pages[1].images[k] = "fails"
    THEN IF ~IsBlank(pages[1].text) THEN TextChunkTypes(pages[1].text, cfg) ELSE <<>>
    ELSE PageChunkTypes(pages[1], cfg) \o PdfChunkTypesUntilFailure(Tail(pages), cfg)

RECURSIVE PdfChunkTypes(_, _)
PdfChunkTypes(pages, cfg) ==
    IF pages = <<>> THEN <<>>
    ELSE PageChunkTypes(pages[1], cfg) \o PdfChunkTypes(Tail(pages), cfg)

\* file_type = MIXED if (has_text and has_images) else (TEXT if has_text else IMAGE)
FileTypeOf(has_text, has_images) ==
    IF has_text /\ has_images THEN "mixed" ELSE IF has_text THEN "text" ELSE "image"

\* process_pdf_file: has_text is set by a page whose text is not blank,
\* has_images by every entry of page.get_images, before its extraction is tried
process_pdf_file(pages, cfg) ==
    LET has_text == \E i \in 1..Len(pages) : ~IsBlank(pages[i].text)
        has_images == \E i \in 1..Len(pages) : pages[i].images # <<>>
    IN  [chunks |-> PdfChunkTypes(pages, cfg), file_type |-> FileTypeOf(has_text, has_images),
         has_text |-> has_text, has_images |-> has_images]

process_text_file(content, cfg) ==
    [chunks |-> TextChunkTypes(content, cfg), file_type |-> "text",
     has_text |-> TRUE, has_images |-> FALSE]

process_image_file ==
    [chunks |-> <<"image">>, file_type |-> "image", has_text |-> FALSE, has_images |-> TRUE]

\* the metadata of an image chunk has no chunk_id key
NoChunkId == -1

\* chunk_metadata["chunk_id"] of each chunk _chunk_text returns
TextChunkIds(text, cfg) ==
    [k \in 1..Len(chunk_text(text, cfg)) |-> chunk_text(text, cfg)[k].chunk_id]

ImageChunkIds(images) == [k \in 1..Len(ImageChunkTypes(images)) |-> NoChunkId]

PageChunkIds(page, cfg) ==
    (IF ~IsBlank(page.text) THEN TextChunkIds(page.text, cfg) ELSE <<>>)
    \o ImageChunkIds(page.images)

RECURSIVE PdfChunkIds(_, _)
PdfChunkIds(pages, cfg) ==
    IF pages = <<>> THEN <<>>
    ELSE PageChunkIds(pages[1], cfg) \o PdfChunkIds(Tail(pages), cfg)

\* the metadata chunk_id of the chunks process_document returns for a file
MetadataChunkIds(file, cfg) ==
    IF file.kind = "text" THEN TextChunkIds(file.content, cfg)
    ELSE IF file.kind = "image" THEN <<NoChunkId>>
    ELSE PdfChunkIds(file.pages, cfg)

\* opening the file (open, Image.open, fitz.open) can raise
ProcessFaults == {"none", "open"}

\* process_document: dispatch on the file type the extension gives
process_document(file, fault) ==
    LET call == [NoCall EXCEPT !.op = "process_document", !.fault = fault,
                               !.file = upload]
        result == IF file.kind = "text" THEN process_text_file(file.content, settings)
                  ELSE IF file.kind = "image" THEN process_image_file
                  ELSE process_pdf_file(file.pages, settings)
    IN  /\ IF fault = "open"
           THEN last' = [call EXCEPT !.raised = TRUE]
           ELSE last' = [call EXCEPT !.chunks = result.chunks,
                                     !.chunk_ids = MetadataChunkIds(file, settings),
                                     !.file_type = result.file_type,
                                     !.has_text = result.has_text,
                                     !.has_images = result.has_images]
        /\ UNCHANGED <<index, collection_live, conversations_db, token_limit, settings, upload, pipeline,
                       chunker, running>>

\* ---------------------------------------------------------- QueryService
HumanMessage(content) == [role |-> "human", content |-> content]
AIMessage(content) == [role |-> "ai", content |-> content]

\* _retrieve_documents: state["context"]
Context(retrieved_docs) ==
    IF retrieved_docs = {} THEN NoRelevantDocuments ELSE ContextBlocks

\* plausible bug: the language model is asked although nothing was retrieved
GenerateAnswerWithoutShortCircuit(retrieved_docs, conversation_history, query, llm_fault, reply) ==
    IF llm_fault
    THEN [answer |-> GenerationError, messages |-> conversation_history, llm_calls |-> 1]
    ELSE [answer |-> reply,
          messages |-> conversation_history \o <<HumanMessage(query), AIMessage(reply)>>,
          llm_calls |-> 1]

\* _generate_answer: state["answer"], state["messages"] and the number of
\* self.llm.invoke calls; llm_fault tells that invoke raises, reply is
\* response.content
GenerateAnswer(retrieved_docs, conversation_history, query, llm_fault, reply) ==
    IF retrieved_docs = {}
    THEN [answer |-> Apology, messages |-> conversation_history, llm_calls |-> 0]
    ELSE IF llm_fault
    THEN [answer |-> GenerationError, messages |-> conversation_history, llm_calls |-> 1]
    ELSE [answer |-> reply,
          messages |-> conversation_history \o <<HumanMessage(query), AIMessage(reply)>>,
          llm_calls |-> 1]

\* plausible bug: no except branch around the two stages
QueryServiceResultPropagates(r, query, llm_fault, reply) ==
    LET g == GenerateAnswer(r.docs, <<>>, query, llm_fault, reply)
    IN  [raised |-> r.raised, stage_raised |-> r.raised,
         llm_fault |-> llm_fault /\ g.llm_calls > 0,
         answer |-> g.answer, retrieved |-> r.docs,
         total_results |-> Cardinality(r.docs), context |-> Context(r.docs),
         llm_calls |-> g.llm_calls, messages |-> g.messages]

\* QueryService.query for the value r that VectorStore.query returns or raises:
\* initial_state has messages [] and the except branch builds the degraded
\* result; stage_raised and llm_fault tell which external call raised
QueryServiceResult(r, query, llm_fault, reply) ==
    IF r.raised
    THEN [raised |-> FALSE, stage_raised |-> TRUE, llm_fault |-> FALSE,
          answer |-> PipelineError, retrieved |-> {},
          total_results |-> 0, context |-> "", llm_calls |-> 0, messages |-> <<>>]
    ELSE LET g == GenerateAnswer(r.docs, <<>>, query, llm_fault, reply)
         IN  [raised |-> FALSE, stage_raised |-> FALSE,
              llm_fault |-> llm_fault /\ g.llm_calls > 0,
              answer |-> g.answer, retrieved |-> r.docs,
              total_results |-> Cardinality(r.docs), context |-> Context(r.docs),
              llm_calls |-> g.llm_calls, messages |-> g.messages]

\* what QueryService.query can return for a query text, over every top_k,
\* filter, include_images and every place where an external call raises
ServiceResults(query) ==
    {QueryServiceResult(r, query, llm_fault, reply) :
        r \in UNION {StoreQueryReturns(top_k, f, include_images, fault) :
                        top_k \in TopKs, f \in Filters, include_images \in BOOLEAN,
                        fault \in QueryFaults},
        llm_fault \in BOOLEAN, reply \in LlmReplies}

service_query(query, result) ==
    /\ last' = [NoCall EXCEPT !.op = "QueryService.query", !.query = query,
                              !.fault = IF result.stage_raised THEN "embed" ELSE "none",
                              !.llm_fault = result.llm_fault,
                              !.raised = result.raised,
                              !.answer = result.answer,
                              !.retrieved = result.retrieved,
                              !.total_results = result.total_results,
                              !.context = result.context,
                              !.llm_calls = result.llm_calls,
                              !.retrievals = 1,
                              !.messages = result.messages]
    /\ UNCHANGED <<index, collection_live, conversations_db, token_limit, settings, upload, pipeline, chunker, running>>

\* ---------------------------------- QueryService.query, stage by stage
\* the locals of a pipeline run: pc names the stage that runs next ("done" once
\* the run has returned); retrieved, answer and messages are the fields of
\* state; retrievals counts the vector_store.query calls, llm_calls the
\* self.llm.invoke calls, llm_failed tells that the last invoke raised
PipelineCall(query, messages) ==
    [pc |-> "retrieve", query |-> query, retrieved |-> {}, answer |-> <<>>,
     messages |-> messages, retrievals |-> 0, llm_calls |-> 0, llm_failed |-> FALSE]

PipelineIdle == [PipelineCall(<<>>, <<>>) EXCEPT !.pc = "idle"]

\* state["messages"] when a run starts: [] in QueryService.query, the turns the
\* checkpointer kept for the thread in a run of the compiled graph
Histories ==
    {<<>>, <<HumanMessage(Words(1)), AIMessage(Words(MaxReplyTokens))>>}

\* plausible bug: the two new messages replace the history
GenerateAnswerDropsHistory(retrieved_docs, conversation_history, query, llm_fault, reply) ==
    GenerateAnswer(retrieved_docs, <<>>, query, llm_fault, reply)

\* the _generate_answer the generate stage runs
GenerateNode(retrieved_docs, conversation_history, query, llm_fault, reply) ==
    GenerateAnswer(retrieved_docs, conversation_history, query, llm_fault, reply)

\* plausible bug: a failed generation is tried once more
AfterGenerateRetry(p, llm_fault) ==
    IF llm_fault /\ p.llm_calls = 0 THEN "generate" ELSE "done"

\* workflow.add_edge("generate", END); in query the return follows the call
AfterGenerate(p, llm_fault) == "done"

\* initial_state is built
query_start(query, messages) ==
    /\ pipeline.pc \in {"idle", "done"}
    /\ pipeline' = PipelineCall(query, messages)
    /\ UNCHANGED <<index, collection_live, conversations_db, token_limit, settings, chunker, upload, running, last>>

\* the retrieve stage: r is what vector_store.query returns or raises; an
\* exception leaves the try block for the degraded result
retrieve_stage(r) ==
    /\ pipeline.pc = "retrieve"
    /\ pipeline' = IF r.raised
                   THEN [pipeline EXCEPT !.pc = "done", !.retrievals = @ + 1,
                                         !.answer = PipelineError]
                   ELSE [pipeline EXCEPT !.pc = "generate", !.retrievals = @ + 1,
                                         !.retrieved = r.docs]
    /\ UNCHANGED <<index, collection_live, conversations_db, token_limit, settings, chunker, upload, running, last>>

\* the generate stage
generate_stage(llm_fault, reply) ==
    /\ pipeline.pc = "generate"
    /\ LET g == GenerateNode(pipeline.retrieved, pipeline.messages, pipeline.query,
                             llm_fault, reply)
           failed == llm_fault /\ g.llm_calls > 0
       IN  pipeline' = [pipeline EXCEPT !.pc = AfterGenerate(pipeline, failed),
                                        !.answer = g.answer,
                                        !.messages = g.messages,
                                        !.llm_calls = @ + g.llm_calls,
                                        !.llm_failed = failed]
    /\ UNCHANGED <<index, collection_live, conversations_db, token_limit, settings, chunker, upload, running, last>>

\* ------------------------------------------------------ EmbeddingService
\* self.embedding_dimension
EmbeddingDimension == 512
\* the size of the features of the CLIP model settings.clip_model names
ClipDimension == 512
\* the size of the vectors of the encoder settings.embedding_model names
MiniLmDimension == 384

\* what self.text_model.encode does: it raises, or returns a vector shorter
\* than, as long as, or longer than embedding_dimension
FallbackOutcomes ==
    {[raised |-> TRUE, length |-> 0]}
    \cup {[raised |-> FALSE, length |-> n] :
             n \in {MiniLmDimension, EmbeddingDimension, EmbeddingDimension + MiniLmDimension}}

\* embedding.extend([0.0] * (dimension - len)) or embedding[:dimension]
PadOrTruncate(length) ==
    IF length < EmbeddingDimension
    THEN Vector(EmbeddingDimension, EmbeddingDimension - length, "text_model")
    ELSE Vector(Min(length, EmbeddingDimension), 0, "text_model")

\* embed_text: clip_fault tells that the CLIP tokenizer or model raises; the
\* except branch calls self.text_model.encode outside any try (count records
\* the length of what encode returned)
EmbedText(clip_fault, fallback) ==
    IF ~clip_fault THEN [raised |-> FALSE, vector |-> Vector(ClipDimension, 0, "clip")]
    ELSE IF fallback.raised THEN [raised |-> TRUE, vector |-> NoVector]
    ELSE [raised |-> FALSE, vector |-> PadOrTruncate(fallback.length)]

\* embed_image: the whole body is inside the try
EmbedImage(clip_fault) ==
    IF ~clip_fault THEN [raised |-> FALSE, vector |-> Vector(ClipDimension, 0, "clip")]
    ELSE [raised |-> FALSE,
          vector |-> Vector(EmbeddingDimension, EmbeddingDimension, "zeros")]

EmbedFault(clip_fault, fallback) ==
    IF ~clip_fault THEN "none" ELSE IF fallback.raised THEN "text_model" ELSE "clip"

embed_text(text, clip_fault, fallback) ==
    /\ last' = [NoCall EXCEPT !.op = "embed_text", !.query = text,
                              !.fault = EmbedFault(clip_fault, fallback),
                              !.count = IF clip_fault THEN fallback.length ELSE 0,
                              !.raised = EmbedText(clip_fault, fallback).raised,
                              !.vector = EmbedText(clip_fault, fallback).vector]
    /\ UNCHANGED <<index, collection_live, conversations_db, token_limit, settings, chunker, upload, pipeline, running>>

\* embed_query: return self.embed_text(query)
embed_query(query, clip_fault, fallback) ==
    /\ last' = [NoCall EXCEPT !.op = "embed_query", !.query = query,
                              !.fault = EmbedFault(clip_fault, fallback),
                              !.count = IF clip_fault THEN fallback.length ELSE 0,
                              !.raised = EmbedText(clip_fault, fallback).raised,
                              !.vector = EmbedText(clip_fault, fallback).vector]
    /\ UNCHANGED <<index, collection_live, conversations_db, token_limit, settings, chunker, upload, pipeline, running>>

\* embed_image: decodable tells whether image_data decodes to an image
embed_image(decodable, clip_fault) ==
    /\ last' = [NoCall EXCEPT !.op = "embed_image",
                              !.fault = IF ~decodable THEN "decode"
                                        ELSE IF clip_fault THEN "clip" ELSE "none",
                              !.raised = EmbedImage(clip_fault \/ ~decodable).raised,
                              !.vector = EmbedImage(clip_fault \/ ~decodable).vector]
    /\ UNCHANGED <<index, collection_live, conversations_db, token_limit, settings, chunker, upload, pipeline, running>>

\* ------------------------------------------- DocumentProcessor: document ids
FileNames == {"report", "copy"}

\* f.read() of the saved file
Bytes(file) == [content |-> file.content, pages |-> file.pages]

\* the length of hashlib.sha256(...).hexdigest() and of the id cut from it
Sha256HexChars == 64
DocumentIdHexChars == 16

\* hashlib.sha256(bytes).hexdigest()
Sha256HexDigest(bytes) == HexDigest(bytes, Sha256HexChars)

\* digest[:n]
Prefix(digest, n) == HexDigest(digest.of, Min(n, digest.hex_chars))

\* plausible bug: the id is cut from the hash of the file's path
DocumentIdOfPath(up) ==
    Prefix(Sha256HexDigest([content |-> <<up.file_name>>, pages |-> <<>>]),
           DocumentIdHexChars)

\* file_hash[:16]
DocumentIdOf(up) == Prefix(Sha256HexDigest(Bytes(up.file)), DocumentIdHexChars)

\* open(file_path, 'rb') can raise
HashFaults == {"none", "open"}

\* generate_document_id on the saved file; after_same tells that the call
\* before this one hashed the same bytes under another file name
generate_document_id(fault) ==
    /\ last' = [NoCall EXCEPT !.op = "generate_document_id", !.fault = fault,
                              !.file = upload,
                              !.raised = (fault = "open"),
                              !.generated_id = IF fault = "open" THEN NoDocumentId
                                               ELSE DocumentIdOf(upload),
                              !.after_same = /\ last.op = "generate_document_id"
                                             /\ ~last.raised
                                             /\ Bytes(last.file.file) = Bytes(upload.file)
                                             /\ last.file.file_name # upload.file_name]
    /\ UNCHANGED <<index, collection_live, conversations_db, token_limit, settings, chunker, upload, pipeline, running>>

\* upload_document writes the same bytes to save_dir / file.filename for
\* another file name
save_upload_as(file_name) ==
    /\ file_name # upload.file_name
    /\ upload' = Upload(file_name, upload.file)
    /\ UNCHANGED <<index, collection_live, conversations_db, token_limit, settings, chunker, pipeline, running, last>>

\* ------------------------------------------------------- routes.py: /query
\* getattr(request, 'thread_id', None): QueryRequest (models.py) declares no
\* thread_id field, so whatever the client sends the attribute is absent
RequestThreadId(sent_thread_id) == NoThread

RECURSIVE SumTokenCounts(_)
SumTokenCounts(messages) ==
    IF messages = <<>> THEN 0
    ELSE messages[1].token_count + SumTokenCounts(Tail(messages))

\* sum(msg.get("token_count", 0) for msg in conversations_db.get(thread_id, {})...)
ConversationTokens(db, thread_id) ==
    IF thread_id \in DOMAIN db THEN SumTokenCounts(db[thread_id].messages) ELSE 0

\* the two messages the route appends for a turn
TurnMessages(query, answer) ==
    <<[role |-> "user", content |-> query, token_count |-> count_tokens(query)],
      [role |-> "assistant", content |-> answer, token_count |-> count_tokens(answer)]>>

\* conversations_db after the thread is created if absent and extended
AppendTurn(db, thread_id, query, answer) ==
    LET thread == IF thread_id \in DOMAIN db
                  THEN db[thread_id]
                  ELSE [thread_id |-> thread_id, title |-> query, messages |-> <<>>]
    IN  [t \in DOMAIN db \cup {thread_id} |->
            IF t = thread_id
            THEN [thread EXCEPT !.messages = thread.messages \o TurnMessages(query, answer)]
            ELSE db[t]]

\* query_documents: sent_thread_id is the thread id in the request body, uuid
\* the value of uuid.uuid4(), result what query_service.query returns, cancelled
\* tells that the client gave up the request while query_service.query ran;
\* conversation_tokens records the running total the budget check used.
\* The handler is a coroutine without an await and query_service.query is an
\* ordinary call: the event loop runs the handler from its first line to its
\* return before it starts another one (requests in flight together are
\* handled one after the other), and neither a disconnect nor a cancellation
\* is looked at before the handler returns.
query_documents(query, sent_thread_id, uuid, result, cancelled) ==
    LET call == [NoCall EXCEPT !.op = "query_documents", !.query = query,
                               !.sent_thread_id = sent_thread_id,
                               !.named_existing = sent_thread_id \in DOMAIN conversations_db,
                               !.after_same = /\ last.op = "query_documents"
                                              /\ last.status = 200
                                              /\ last.named_existing
                                              /\ last.sent_thread_id = sent_thread_id]
        query_tokens == count_tokens(query)
        thread_id == IF RequestThreadId(sent_thread_id) = NoThread
                     THEN uuid
                     ELSE RequestThreadId(sent_thread_id)
        conversation_tokens == ConversationTokens(conversations_db, thread_id)
        total_estimated_tokens == query_tokens + conversation_tokens
    IN  /\ IF IsBlank(query)
           THEN /\ last' = [call EXCEPT !.status = 400]
                /\ UNCHANGED conversations_db
           ELSE IF ~token_limit.is_set
           THEN /\ last' = [call EXCEPT !.status = 500]
                /\ UNCHANGED conversations_db
           ELSE IF query_tokens > token_limit.value
           THEN /\ last' = [call EXCEPT !.status = 400]
                /\ UNCHANGED conversations_db
           ELSE IF total_estimated_tokens > token_limit.value
           THEN /\ last' = [call EXCEPT !.status = 400, !.thread_id = thread_id,
                                        !.conversation_tokens = conversation_tokens]
                /\ UNCHANGED conversations_db
           ELSE /\ thread_id # NoThread
                /\ conversations_db' = AppendTurn(conversations_db, thread_id, query, result.answer)
                /\ last' = [call EXCEPT !.status = 200, !.thread_id = thread_id,
                                        !.answer = result.answer,
                                        !.total_results = result.total_results,
                                        !.llm_fault = result.llm_fault,
                                        !.llm_calls = result.llm_calls,
                                        !.retrievals = 1,
                                        !.cancelled = cancelled,
                                        !.conversation_tokens = conversation_tokens]
        /\ UNCHANGED <<index, collection_live, token_limit, settings, upload, pipeline, chunker, running>>

\* ------------------------------------ routes.py: conversations and /reset
\* plausible bug: the thread is kept and its messages are dropped
WithMessagesCleared(db, thread_id) ==
    [t \in DOMAIN db |-> IF t = thread_id THEN [db[t] EXCEPT !.messages = <<>>] ELSE db[t]]

\* del conversations_db[thread_id]
WithoutThread(db, thread_id) == [t \in DOMAIN db \ {thread_id} |-> db[t]]

\* delete_conversation: 404 for a thread that is not stored
delete_conversation(thread_id) ==
    LET call == [NoCall EXCEPT !.op = "delete_conversation", !.thread_id = thread_id]
    IN  /\ IF thread_id \notin DOMAIN conversations_db
           THEN /\ last' = [call EXCEPT !.status = 404]
                /\ UNCHANGED conversations_db
           ELSE /\ conversations_db' = WithoutThread(conversations_db, thread_id)
                /\ last' = [call EXCEPT !.status = 200]
        /\ UNCHANGED <<index, collection_live, token_limit, settings, upload, pipeline, chunker, running>>

\* plausible bug: the store is cleared before the result of the wipe is looked at
ConversationsAfterResetAlwaysCleared(db, success) == <<>>

\* if success: conversations_db.clear()
ConversationsAfterReset(db, success) == IF success THEN <<>> ELSE db

\* reset_database: vector_store.reset_collection() and, when it returned True,
\* conversations_db.clear(); otherwise HTTP 500. count and total_chunks record
\* how many threads and records there were when the handler started
reset_database(fault) ==
    LET call == [NoCall EXCEPT !.op = "reset_database", !.fault = fault,
                               !.count = Cardinality(DOMAIN conversations_db),
                               !.total_chunks = Cardinality(index)]
        dropped == ~(fault = "delete_collection" \/ ~collection_live)
        success == dropped /\ fault # "create_collection"
    IN  /\ index' = IF dropped THEN {} ELSE index
        /\ collection_live' = IF dropped THEN success ELSE collection_live
        /\ conversations_db' = ConversationsAfterReset(conversations_db, success)
        /\ last' = [call EXCEPT !.ok = success, !.status = IF success THEN 200 ELSE 500]
        /\ UNCHANGED <<token_limit, settings, upload, pipeline, chunker, running>>

\* ------------------------------------------------- specification: the store
Init ==
    /\ index = {}
    /\ collection_live = TRUE
    /\ conversations_db = <<>>
    /\ token_limit = NotConfigured
    /\ settings = DefaultSettings
    /\ chunker = ChunkerIdle
    /\ upload = NoUpload
    /\ pipeline = PipelineIdle
    /\ running = Idle
    /\ last = NoCall

AddDocuments ==
    \E chunks \in ChunkLists, d \in DocumentIds :
        \E fault \in AddFaults(chunks) : add_documents(chunks, d, fault)

StoreQuery ==
    \E top_k \in TopKs, f \in Filters, include_images \in BOOLEAN, fault \in QueryFaults :
        store_query(top_k, f, include_images, fault)

DeleteDocument ==
    \E d \in DocumentIds : \E fault \in DeleteFaults(d) : delete_document(d, fault)

GetCollectionStats == \E fault \in StatsFaults : get_collection_stats(fault)

ResetCollection == \E fault \in ResetFaults : reset_collection(fault)

Next ==
    \/ AddDocuments
    \/ DeleteDocument
    \/ GetCollectionStats
    \/ ResetCollection
    \/ VectorStoreInit

Spec == Init /\ [][Next]_vars

\* ---------------------------------------------- specification: store queries
\* the contents the collection is queried with: the records of one chunk list
\* of a document (ids 0..n-1 of a document are added and deleted together),
\* alone or next to a second document of one chunk
IndexStates ==
    {Batch(a, "d1") \cup Batch(b, "d2") : a \in ChunkLists, b \in SeqsUpTo(ChunkTypes, 1)}

InitQuery ==
    /\ index \in IndexStates
    /\ collection_live \in BOOLEAN
    /\ collection_live \/ index = {}
    /\ conversations_db = <<>>
    /\ token_limit = NotConfigured
    /\ settings = DefaultSettings
    /\ chunker = ChunkerIdle
    /\ upload = NoUpload
    /\ pipeline = PipelineIdle
    /\ running = Idle
    /\ last = NoCall

NextQuery == StoreQuery

SpecQuery == InitQuery /\ [][NextQuery]_vars

\* ------------------------------------------ specification: the query pipeline
ServiceQuery ==
    \E query \in QueryTexts : \E result \in ServiceResults(query) :
        service_query(query, result)

\* the index the pipeline runs against: the records of one document's chunk
\* list, or nothing
PipelineIndexStates == {Batch(chunks, "d1") : chunks \in ChunkLists}

InitPipeline ==
    /\ index \in PipelineIndexStates
    /\ collection_live \in BOOLEAN
    /\ collection_live \/ index = {}
    /\ conversations_db = <<>>
    /\ token_limit = NotConfigured
    /\ settings = DefaultSettings
    /\ chunker = ChunkerIdle
    /\ upload = NoUpload
    /\ pipeline = PipelineIdle
    /\ running = Idle
    /\ last = NoCall

NextPipeline == ServiceQuery

SpecPipeline == InitPipeline /\ [][NextPipeline]_vars

\* ------------------------------------------------ specification: the routes
\* the index the routes run against: empty, one text chunk, or a text and an
\* image chunk of one document
RouteIndexStates ==
    {{}, Batch(<<"text">>, "d1"), Batch(<<"text", "image">>, "d1")}

InitRoutes ==
    /\ index \in RouteIndexStates
    /\ collection_live = TRUE
    /\ conversations_db = <<>>
    /\ token_limit \in {NotConfigured, Configured(ConfiguredLimit)}
    /\ settings = DefaultSettings
    /\ chunker = ChunkerIdle
    /\ upload = NoUpload
    /\ pipeline = PipelineIdle
    /\ running = Idle
    /\ last = NoCall

\* str(uuid.uuid4()): an id no thread has yet (ids are opaque, the least unused
\* one stands for it); NoThread when MaxThreads threads exist
FreshThreadId ==
    LET unused == ThreadIds \ DOMAIN conversations_db
    IN  IF unused = {} THEN NoThread
        ELSE CHOOSE t \in unused : \A u \in unused : t <= u

\* a thread_id the client puts into the request body: none, or some id
SentThreadIds == {NoThread, 1}

QueryDocuments ==
    \E query \in QueryTexts : \E result \in ServiceResults(query) :
        \E sent_thread_id \in SentThreadIds, cancelled \in BOOLEAN :
            query_documents(query, sent_thread_id, FreshThreadId, result, cancelled)

NextRoutes == QueryDocuments

SpecRoutes == InitRoutes /\ [][NextRoutes]_vars

\* ------------------------------------ specification: the conversation store
\* queries that create threads, deletions of threads and resets, against an
\* index of one text chunk; at most MaxOpenThreads threads are kept at a time
MaxOpenThreads == 2

InitConversations ==
    /\ index = Batch(<<"text">>, "d1")
    /\ collection_live = TRUE
    /\ conversations_db = <<>>
    /\ token_limit \in {NotConfigured, Configured(ConfiguredLimit)}
    /\ settings = DefaultSettings
    /\ chunker = ChunkerIdle
    /\ upload = NoUpload
    /\ pipeline = PipelineIdle
    /\ running = Idle
    /\ last = NoCall

AskQuery ==
    /\ Cardinality(DOMAIN conversations_db) < MaxOpenThreads
    /\ \E query \in QueryTexts : \E result \in ServiceResults(query) :
           \E sent_thread_id \in SentThreadIds :
               query_documents(query, sent_thread_id, FreshThreadId, result, FALSE)

DeleteConversation == \E thread_id \in ThreadIds : delete_conversation(thread_id)

ResetDatabase == \E fault \in ResetFaults : reset_database(fault)

NextConversations == AskQuery \/ DeleteConversation \/ ResetDatabase

SpecConversations == InitConversations /\ [][NextConversations]_vars

\* ----------------------------------------------- specification: _chunk_text
\* a call of _chunk_text on a short text under small settings or the declared
\* ones, and on the long text under the declared ones
InitChunking ==
    /\ index = {}
    /\ collection_live = TRUE
    /\ conversations_db = <<>>
    /\ token_limit = NotConfigured
    /\ \/ /\ settings \in SmallSettings \cup {DefaultSettings}
          /\ \E text \in Texts : chunker = ChunkerCall(text)
       \/ /\ settings = DefaultSettings
          /\ chunker = ChunkerCall(LongText)
    /\ upload = NoUpload
    /\ pipeline = PipelineIdle
    /\ running = Idle
    /\ last = NoCall

NextChunking == ChunkTextIterate \/ ChunkTextReturn

SpecChunking == InitChunking /\ [][NextChunking]_vars

\* ------------------------------------------ specification: process_document
InitIngest ==
    /\ index = {}
    /\ collection_live = TRUE
    /\ conversations_db = <<>>
    /\ token_limit = NotConfigured
    /\ settings \in AdvancingSettings
    /\ chunker = ChunkerIdle
    /\ upload \in {Upload("report", file) : file \in Files}
    /\ pipeline = PipelineIdle
    /\ running = Idle
    /\ last = NoCall

ProcessDocument ==
    \E fault \in ProcessFaults : process_document(upload.file, fault)

NextIngest == ProcessDocument

SpecIngest == InitIngest /\ [][NextIngest]_vars

\* ------------------------------------- specification: generate_document_id
\* text files, the image file and PDFs of at most one page, saved under either
\* file name, next to an empty or a filled index
HashedFiles == {file \in Files : Len(file.pages) <= 1}

InitUpload ==
    /\ index \in {{}, Batch(<<"text">>, "d1")}
    /\ collection_live = TRUE
    /\ conversations_db = <<>>
    /\ token_limit = NotConfigured
    /\ settings = DefaultSettings
    /\ chunker = ChunkerIdle
    /\ upload \in {Upload(file_name, file) : file_name \in FileNames, file \in HashedFiles}
    /\ pipeline = PipelineIdle
    /\ running = Idle
    /\ last = NoCall

GenerateDocumentId == \E fault \in HashFaults : generate_document_id(fault)

SaveUploadAs == \E file_name \in FileNames : save_upload_as(file_name)

NextUpload == GenerateDocumentId \/ SaveUploadAs

SpecUpload == InitUpload /\ [][NextUpload]_vars

\* ------------------------------------------- specification: the embeddings
EmbedTextCall ==
    \E text \in Texts \cup QueryTexts, clip_fault \in BOOLEAN, fallback \in FallbackOutcomes :
        embed_text(text, clip_fault, fallback)

EmbedQueryCall ==
    \E query \in Texts \cup QueryTexts, clip_fault \in BOOLEAN, fallback \in FallbackOutcomes :
        embed_query(query, clip_fault, fallback)

EmbedImageCall ==
    \E decodable \in BOOLEAN, clip_fault \in BOOLEAN : embed_image(decodable, clip_fault)

NextEmbedding == EmbedTextCall \/ EmbedQueryCall \/ EmbedImageCall

SpecEmbedding == Init /\ [][NextEmbedding]_vars

\* ------------------------------- specification: the pipeline stage by stage
\* the index a run is made against: nothing, or a text and an image chunk of
\* one document
InitStages ==
    /\ index \in {{}, Batch(<<"text", "image">>, "d1")}
    /\ collection_live = TRUE
    /\ conversations_db = <<>>
    /\ token_limit = NotConfigured
    /\ settings = DefaultSettings
    /\ chunker = ChunkerIdle
    /\ upload = NoUpload
    /\ pipeline = PipelineIdle
    /\ running = Idle
    /\ last = NoCall

QueryStart ==
    \E query \in QueryTexts, messages \in Histories : query_start(query, messages)

RetrieveStage ==
    \E top_k \in TopKs, f \in Filters, include_images \in BOOLEAN, fault \in QueryFaults :
        \E r \in StoreQueryReturns(top_k, f, include_images, fault) : retrieve_stage(r)

GenerateStage ==
    \E llm_fault \in BOOLEAN, reply \in LlmReplies : generate_stage(llm_fault, reply)

NextStages == QueryStart \/ RetrieveStage \/ GenerateStage

\* a stage that has been started runs to its end: the stages are ordinary
\* calls in one thread of control
SpecStages ==
    /\ InitStages
    /\ [][NextStages]_vars
    /\ WF_vars(RetrieveStage)
    /\ WF_vars(GenerateStage)

\* --------------------------------- specification: handlers on the event loop
\* uploads, deletes, resets and queries for the chunks of one document, the
\* deletes and resets taken one collection call at a time
ServeUpload == EventLoopFree /\ AddDocuments

ServeDocumentQuery ==
    /\ EventLoopFree
    /\ \E d \in DocumentIds, fault \in {"none", "search"} :
           store_query(MaxTopK, FilterOf([k \in {"document_id"} |-> Cond("$eq", d)]),
                       TRUE, fault)

DeleteLookup ==
    \E d \in DocumentIds, fault \in {"none", "get"} : delete_document_get(d, fault)

DeleteRemove == \E fault \in {"none", "delete"} : delete_document_delete(fault)

ResetDrop == \E fault \in {"none", "delete_collection"} : reset_collection_delete(fault)

ResetCreate == \E fault \in {"none", "create_collection"} : reset_collection_create(fault)

UploadArrives == \E d \in DocumentIds : upload_arrives(d)

NextInterleaved ==
    \/ ServeUpload
    \/ ServeDocumentQuery
    \/ DeleteLookup
    \/ DeleteRemove
    \/ ResetDrop
    \/ ResetCreate
    \/ UploadArrives

SpecInterleaved == Init /\ [][NextInterleaved]_vars

\* ===================================================================== claims
StoredOf(ix, document_id) == {c \in ix : c.document_id = document_id}

C2_OverLimitIsClientError ==
    [][(/\ last'.op = "query_documents"
        /\ count_tokens(last'.query)
             + ConversationTokens(conversations_db, last'.thread_id) > ConfiguredLimit) =>
          /\ last'.status = 400
          /\ last'.retrievals = 0
          /\ last'.llm_calls = 0
          /\ conversations_db' = conversations_db]_vars

C4_DeleteRemovesAllAndOnly ==
    [][last'.op = "delete_document" =>
          /\ \A d \in DocumentIds \ {last'.document_id} :
                 StoredOf(index', d) = StoredOf(index, d)
          /\ StoredOf(index', last'.document_id) \subseteq StoredOf(index, last'.document_id)
          /\ (last'.fault = "none" /\ collection_live) =>
                 StoredOf(index', last'.document_id) = {}
          /\ last'.ok => StoredOf(index', last'.document_id) = {}
          /\ ~last'.ok => index' = index]_vars

\* a delete has removed a document of several chunks and another document remains
C4_Witness ==
    /\ last.op = "delete_document" /\ last.ok
    /\ StoredOf(index, last.document_id) = {}
    /\ \E d \in DocumentIds : Cardinality(StoredOf(index, d)) > 1

\* C5: a delete that directly follows a delete of the same id that returned True
\* returns False; a delete whose collection calls succeed returns True exactly
\* when the id has a chunk in the index; a delete of an id without chunks
\* returns False and changes nothing; delete never raises.
C5_DeleteTrueThenFalse ==
    /\ [](last.op = "delete_document" =>
            /\ ~last.raised
            /\ last.after_same => ~last.ok)
    /\ [][last'.op = "delete_document" =>
            /\ (last'.fault = "none" /\ collection_live) =>
                   (last'.ok <=> StoredOf(index, last'.document_id) # {})
            /\ StoredOf(index, last'.document_id) = {} =>
                   (~last'.ok /\ index' = index)]_vars

\* the second of two consecutive deletes of one id: the first returned True
C5_Witness ==
    /\ last.op = "delete_document" /\ last.after_same
    /\ last.fault = "none" /\ collection_live /\ ~last.ok

\* C6: for every index state, top_k and caller filter (one that constrains
\* chunk_type included), query with include_images=False returns no chunk whose
\* chunk_type is image.
C6_NoImageWhenExcluded ==
    (last.op = "query" /\ ~last.include_images) =>
        \A c \in last.retrieved : c.chunk_type # "image"

\* a query without images, with a caller filter on chunk_type, returned chunks
\* from an index that holds an image chunk
C6_Witness ==
    /\ last.op = "query" /\ ~last.include_images
    /\ ~last.filter.is_none /\ "chunk_type" \in DOMAIN last.filter.conds
    /\ last.filter.conds["chunk_type"] = Cond("$eq", "image")
    /\ last.retrieved # {}
    /\ \E c \in index : c.chunk_type = "image"

\* C7: after a reset that returned True the index is empty and stats report
\* total_chunks 0; a reset of a live collection whose calls succeed returns True
\* whatever the index held, the empty index included; a second reset in a row
\* leaves the same empty state.
C7_ResetLeavesEmpty ==
    /\ []((last.op = "reset_collection" /\ last.ok) =>
            /\ index = {} /\ collection_live
            /\ \A f \in StatsFaults : TotalChunks(f) = 0)
    /\ [][(last.op = "reset_collection" /\ last.ok /\ last'.op = "get_collection_stats")
            => last'.total_chunks = 0]_vars
    /\ [][(last'.op = "reset_collection" /\ last'.fault = "none" /\ collection_live)
            => (last'.ok /\ index' = {})]_vars
    /\ [][(last'.op = "reset_collection" /\ last'.after_same /\ last'.ok)
            => (index' = index /\ collection_live' = collection_live)]_vars

\* a second reset in a row has returned True
C7_Witness == last.op = "reset_collection" /\ last.ok /\ last.after_same

\* C8: QueryService.query never raises: it returns a result whichever external
\* call fails, and when an exception escapes a stage the result has an empty
\* retrieved list, total_results 0 and the explanatory answer.
C8_QueryNeverRaises ==
    last.op = "QueryService.query" =>
        /\ ~last.raised
        /\ last.total_results = Cardinality(last.retrieved)
        /\ last.fault = "embed" =>
               (last.retrieved = {} /\ last.total_results = 0 /\ last.answer = PipelineError)

\* the embedding of the query raised while the index held chunks
C8_Witness ==
    /\ last.op = "QueryService.query" /\ last.fault = "embed"
    /\ index # {} /\ collection_live

\* C9: whenever retrieval returns zero chunks, the context is the "no relevant
\* documents" marker, the answer is the fixed apology and the language model
\* is not invoked in that invocation.
C9_EmptyRetrievalShortCircuits ==
    (last.op = "QueryService.query" /\ last.fault # "embed" /\ last.retrieved = {}) =>
        /\ last.context = NoRelevantDocuments
        /\ last.answer = Apology
        /\ last.llm_calls = 0

\* retrieval returned nothing although the index holds chunks
C9_Witness ==
    /\ last.op = "QueryService.query" /\ last.fault # "embed" /\ last.retrieved = {}
    /\ index # {} /\ collection_live
    /\ last.answer = Apology

C12_ChunkingFailsFast ==
    [][chunker'.iterations > chunker.iterations =>
          /\ settings.chunk_overlap < settings.chunk_size
          /\ chunker'.start > chunker.start]_vars

\* position i of the text (counted from 1) lies in an emitted chunk
Covered(c, i) ==
    \E k \in 1..Len(c.chunks) :
        /\ c.chunks[k].start < i
        /\ i <= c.chunks[k].start + Len(c.chunks[k].content)
        /\ c.chunks[k].content[i - c.chunks[k].start] = c.text[i]

\* C13: for every text, window size w and overlap o with 0 <= o < w, the chunks
\* returned contain every non-whitespace character position of the text, and
\* no chunk emitted is empty after trimming whitespace.
C13_ChunksCoverText ==
    settings \in AdvancingSettings =>
        /\ \A k \in 1..Len(chunker.chunks) : ~IsBlank(chunker.chunks[k].content)
        /\ chunker.pc = "done" =>
               \A i \in 1..Len(chunker.text) :
                   chunker.text[i] # " " => Covered(chunker, i)

\* a text with whitespace was chunked into several chunks and a blank window
\* was passed over
C13_Witness ==
    /\ chunker.pc = "done" /\ settings \in AdvancingSettings
    /\ Len(chunker.chunks) > 1
    /\ chunker.iterations > Len(chunker.chunks)

\* C14: the windows start at offsets 0, (w-o), 2(w-o), ... below the text
\* length and each has length min(w, remaining length); the chunks returned are
\* the windows that are not blank, in this order; the 2,500-character text with
\* w=1000 and o=200 yields exactly 4 chunks starting at 0, 800, 1600 and 2400,
\* the last one 100 characters long.
C14_WindowOffsets ==
    (chunker.pc = "done" /\ settings \in AdvancingSettings) =>
        LET step == settings.chunk_size - settings.chunk_overlap
            n == Len(chunker.text)
            offsets == {s \in 0..(n - 1) : s % step = 0}
            window(s) == SubSeq(chunker.text, s + 1, Min(s + settings.chunk_size, n))
            chunks == chunker.chunks
        IN  /\ chunker.iterations = Cardinality(offsets)
            /\ {chunks[k].start : k \in 1..Len(chunks)} = {s \in offsets : ~IsBlank(window(s))}
            /\ \A k \in 1..Len(chunks) :
                   /\ chunks[k].content = window(chunks[k].start)
                   /\ Len(chunks[k].content) = Min(settings.chunk_size, n - chunks[k].start)
                   /\ chunks[k].chunk_id = k - 1
                   /\ \A l \in 1..Len(chunks) : k < l => chunks[k].start < chunks[l].start
            /\ (chunker.text = LongText /\ settings = DefaultSettings) =>
                   /\ Len(chunks) = 4
                   /\ <<chunks[1].start, chunks[2].start, chunks[3].start, chunks[4].start>>
                        = <<0, 800, 1600, 2400>>
                   /\ Len(chunks[4].content) = 100

\* the 2,500-character text has been chunked under the declared settings
C14_Witness ==
    /\ chunker.pc = "done" /\ chunker.text = LongText /\ settings = DefaultSettings
    /\ Len(chunker.chunks) = 4

\* C11: for every document processed, the declared file type is MIXED if and
\* only if the chunk list has at least one text chunk and at least one image
\* chunk; it is TEXT when the list has text chunks only and IMAGE when it has
\* image chunks only.
C11_MixedIffBothKinds ==
    (last.op = "process_document" /\ ~last.raised) =>
        LET has_text_chunk == \E i \in 1..Len(last.chunks) : last.chunks[i] = "text"
            has_image_chunk == \E i \in 1..Len(last.chunks) : last.chunks[i] = "image"
        IN  /\ last.file_type \in {"text", "image", "mixed"}
            /\ last.file_type = "mixed" <=> (has_text_chunk /\ has_image_chunk)
            /\ (has_text_chunk /\ ~has_image_chunk) => last.file_type = "text"
            /\ (has_image_chunk /\ ~has_text_chunk) => last.file_type = "image"

\* C15: in every list VectorStore.query returns, the relevance scores
\* (1 - distance) do not increase from one element to the next; the list has
\* one score per returned chunk.
C15_ScoresNonIncreasing ==
    last.op = "query" =>
        /\ Len(last.scores) = Cardinality(last.retrieved)
        /\ \A i \in 1..Len(last.scores) : \A j \in 1..Len(last.scores) :
               i < j => last.scores[i] >= last.scores[j]

\* a query returned several chunks at different distances
C15_Witness ==
    /\ last.op = "query" /\ ~last.raised
    /\ Len(last.scores) > 1
    /\ last.scores[1] > last.scores[Len(last.scores)]

\* C16: VectorStore.query never raises to its caller: when the search fails or
\* the embedding of the query fails it returns an empty list.
C16_StoreQueryNeverRaises ==
    last.op = "query" =>
        /\ ~last.raised
        /\ last.fault # "none" => last.retrieved = {}

Positions(ix, document_id) == {c.chunk_id[2] : c \in StoredOf(ix, document_id)}

\* every document in the index is there from its first chunk to its last
WholeDocuments(ix) ==
    \A d \in DocumentIds :
        Positions(ix, d) = 0..(Cardinality(Positions(ix, d)) - 1)

\* C18: under any interleaving of uploads, deletes, resets and queries, the
\* index a query reads holds each document whole (chunks 0..n-1) or not at all,
\* and no delete or reset is between its two collection calls when a query or
\* an upload runs; an upload stores every chunk of its batch or nothing; a
\* delete that returns True, an upload of the same id having arrived meanwhile
\* or not, leaves no chunk of the document in the index.
C18_NoPartialDocument ==
    /\ [](WholeDocuments(index))
    /\ [][last'.op = "query" /\ last' # last =>
            last'.retrieved \subseteq index /\ WholeDocuments(index)]_vars
    /\ [][last'.op \in {"query", "add_documents"} /\ last' # last => running.op = "idle"]_vars
    /\ [][last'.op = "add_documents" /\ last' # last =>
            \/ index' = index
            \/ Batch(last'.chunks, last'.document_id) \subseteq
                 {[chunk_id |-> c.chunk_id, document_id |-> c.document_id,
                   chunk_type |-> b.chunk_type] :
                      c \in index', b \in Batch(last'.chunks, last'.document_id)}]_vars
    /\ [][(last'.op = "delete_document" /\ last'.ok /\ last' # last) =>
            StoredOf(index', last'.document_id) = {}]_vars

\* a delete of a document of several chunks returned True although an upload of
\* the same document id arrived while the delete was running
C18_Witness ==
    /\ last.op = "delete_document" /\ last.ok /\ last.overlapped
    /\ running.op = "idle"
    /\ StoredOf(index, last.document_id) = {}
    /\ index # {}

\* C21: on a successful generation the messages after the turn are the
\* messages before it followed by exactly two messages, the user question and
\* then the assistant answer, in that order; no earlier message is changed or
\* removed
C21_TurnAppendsTwoMessages ==
    [][(/\ pipeline.pc = "generate"
        /\ pipeline'.pc = "done"
        /\ pipeline'.llm_calls = pipeline.llm_calls + 1
        /\ ~pipeline'.llm_failed)
       => pipeline'.messages =
              pipeline.messages \o <<HumanMessage(pipeline.query),
                                     AIMessage(pipeline'.answer)>>]_vars

C21_Witness ==
    /\ pipeline.pc = "done"
    /\ pipeline.llm_calls = 1
    /\ ~pipeline.llm_failed
    /\ Len(pipeline.messages) = 4
    /\ pipeline.messages[3] = HumanMessage(pipeline.query)
    /\ pipeline.messages[4] = AIMessage(pipeline.answer)

\* C22: a failure to extract one embedded image of a PDF does not abort the
\* document: process_document does not raise, the failing image contributes no
\* chunk, and every page contributes its text chunks followed by one image
\* chunk per image that was extracted, the pages in order
C22_FailedImageSkipped ==
    (/\ last.op = "process_document"
     /\ last.fault = "none"
     /\ last.file.file.kind = "pdf")
    => LET pages == last.file.file.pages
           texts(p) == Len(chunk_text(pages[p].text, settings))
           images(p) == Cardinality({k \in 1..Len(pages[p].images) :
                                        pages[p].images[k] = "ok"})
           slots(p) == {<<p, j>> : j \in 1..(texts(p) + images(p))}
           before(p) == Cardinality(UNION {slots(q) : q \in 1..(p - 1)})
       IN  /\ ~last.raised
           /\ Len(last.chunks) = before(Len(pages) + 1)
           /\ \A p \in 1..Len(pages) : \A j \in 1..(texts(p) + images(p)) :
                  last.chunks[before(p) + j] = IF j <= texts(p) THEN "text" ELSE "image"

C22_Witness ==
    /\ last.op = "process_document"
    /\ ~last.raised
    /\ last.file.file.kind = "pdf"
    /\ Len(last.file.file.pages) = 2
    /\ last.file.file.pages[1].text = <<"a">>
    /\ last.file.file.pages[1].images = <<"fails">>
    /\ last.file.file.pages[2].text = <<"a">>
    /\ last.file.file.pages[2].images = <<"ok">>
    /\ last.chunks = <<"text", "text", "image">>

\* C23: the document id depends only on the file's bytes: it is the first 16
\* hex characters of the digest of the bytes, whatever the file name and
\* whatever the index holds
C23_IdFromBytesOnly ==
    (last.op = "generate_document_id" /\ ~last.raised)
    => last.generated_id = HexDigest(Bytes(last.file.file), 16)

C23_Witness ==
    /\ last.op = "generate_document_id"
    /\ ~last.raised
    /\ last.after_same
    /\ index # {}
    /\ last.generated_id.hex_chars = 16

\* C24: embedding never fails: embed_text, embed_query and embed_image do not
\* raise to their caller and return a vector of exactly 512 components
C24_EmbeddingNeverFails ==
    last.op \in {"embed_text", "embed_query", "embed_image"}
    => ~last.raised /\ last.vector.length = 512

\* C25: a pipeline run is a strictly ordered two-stage sequence: the index is
\* queried exactly once, generation starts only after retrieval has finished,
\* the language model is invoked at most once (no retry after a failure), and
\* the run then terminates
C25_TwoStagesInOrder ==
    /\ [][pipeline'.pc # pipeline.pc
          => <<pipeline.pc, pipeline'.pc>> \in
                 {<<"idle", "retrieve">>, <<"done", "retrieve">>,
                  <<"retrieve", "generate">>, <<"retrieve", "done">>,
                  <<"generate", "done">>}]_vars
    /\ [](pipeline.pc = "retrieve" => pipeline.retrievals = 0 /\ pipeline.llm_calls = 0)
    /\ [](pipeline.pc = "generate" => pipeline.retrievals = 1 /\ pipeline.llm_calls = 0)
    /\ [](pipeline.pc = "done" => pipeline.retrievals = 1 /\ pipeline.llm_calls <= 1)
    /\ (pipeline.pc = "retrieve" ~> pipeline.pc = "done")

C25_Witness ==
    /\ pipeline.pc = "done"
    /\ pipeline.retrievals = 1
    /\ pipeline.llm_calls = 1
    /\ pipeline.llm_failed
    /\ pipeline.answer = GenerationError

\* C26: the chunk_id in the metadata of the text chunks of a document counts
\* 0, 1, 2, ... in emission order with no gap and no repeat, and equals the
\* index i of the stored chunk id {document_id}_{i}
C26_SequenceNumbersDense ==
    (last.op = "process_document" /\ ~last.raised)
    => \A i \in 1..Len(last.chunks) :
          last.chunks[i] = "text"
          => /\ last.chunk_ids[i] =
                    Cardinality({j \in 1..(i - 1) : last.chunks[j] = "text"})
             /\ last.chunk_ids[i] = i - 1

C29_ThreadsHoldWholeTurns ==
    \A t \in DOMAIN conversations_db :
        LET messages == conversations_db[t].messages
        IN  /\ Len(messages) > 0
            /\ Len(messages) % 2 = 0
            /\ \A i \in 1..Len(messages) :
                   messages[i].role = IF i % 2 = 1 THEN "user" ELSE "assistant"

C29_Witness ==
    /\ last.op = "delete_conversation"
    /\ last.status = 200
    /\ conversations_db # <<>>
    /\ \A t \in DOMAIN conversations_db : Len(conversations_db[t].messages) = 2

\* C30: a reset that succeeds leaves the conversation store and the index
\* empty; a reset whose index wipe fails leaves the conversation store exactly
\* as it was
C30_ResetClearsStoreOnlyOnSuccess ==
    [][last'.op = "reset_database"
       => IF last'.ok
          THEN conversations_db' = <<>> /\ index' = {}
          ELSE conversations_db' = conversations_db]_vars

C30_Witness ==
    /\ last.op = "reset_database"
    /\ last.ok
    /\ last.count > 0
    /\ last.total_chunks > 0
    /\ conversations_db = <<>>
    /\ index = {}
====
